---- MODULE Spec2Model ----
(***************************************************************************)
(* Air-crash dashboard (src/air.py): the loader/normalizer load_data and   *)
(* the filter-and-aggregate pipeline that the script re-runs on every      *)
(* change of a sidebar multiselect.                                        *)
(*                                                                         *)
(* Representation.  A table is a sequence of row records.  A numeric cell  *)
(* is a natural number, or NaN (missing), or Bad (a raw cell that does not *)
(* parse as a number).  A string cell is a string, or None (missing).      *)
(***************************************************************************)
EXTENDS Integers, Sequences, FiniteSets, TLC

VARIABLES
    csv,                \* the source file: [has_quarter, rows]
    observed,           \* the installed pandas' default for groupby(observed=)
    pc,                 \* "start" before the first script run, then "ready"
    df,                 \* the cached canonical table
    selected_filters,   \* [year, quarter, month] -> set of selected values
    filtered_df,
    no_of_fatalities,
    total_year,
    sum_of_fatalities,
    raised,             \* TRUE iff a step of the last run raised
    crashes_per_year,
    top_countries,
    monthly_fatalities,
    top_manufacturers,
    decade_counts,
    cut_year,           \* input and output of a stand-alone pd.cut call
    cut_bin

vars == <<csv, observed, pc, df, selected_filters, filtered_df,
          no_of_fatalities, total_year, sum_of_fatalities, raised,
          crashes_per_year, top_countries, monthly_fatalities,
          top_manufacturers, decade_counts, cut_year, cut_bin>>

pipeline_vars == <<csv, observed, pc, df, selected_filters, filtered_df,
          no_of_fatalities, total_year, sum_of_fatalities, raised,
          crashes_per_year, top_countries, monthly_fatalities,
          top_manufacturers, decade_counts>>

----------------------------------------------------------------------------
(* Bounds of the exploration *)

MaxRows == 6
MaxSel == 2
Margin == 8

----------------------------------------------------------------------------
(* Cell values *)

NaN == -1
Bad == -2
None == "<NA>"

Min(a, b) == IF a < b THEN a ELSE b

RECURSIVE SeqToSet(_)
SeqToSet(s) == IF s = <<>> THEN {} ELSE {Head(s)} \cup SeqToSet(Tail(s))

----------------------------------------------------------------------------
(* load_data *)

fillna(v, d) == IF v = None THEN d ELSE v

to_numeric(v) == IF v < 0 THEN NaN ELSE v

month_names == <<"January", "February", "March", "April", "May", "June",
                 "July", "August", "September", "October", "November",
                 "December">>

month_map(m) ==
    CASE m = "January"   -> 1
      [] m = "Feburary"  -> 2
      [] m = "February"  -> 2
      [] m = "March"     -> 3
      [] m = "April"     -> 4
      [] m = "May"       -> 5
      [] m = "June"      -> 6
      [] m = "July"      -> 7
      [] m = "August"    -> 8
      [] m = "September" -> 9
      [] m = "October"   -> 10
      [] m = "November"  -> 11
      [] m = "December"  -> 12
      [] OTHER           -> NaN

\* pd.to_datetime(dict(year, month, day=1), errors="coerce"): the date is
\* assembled as year*10000 + month*100 + day; a missing part gives NaT.
to_datetime(year, month) ==
    IF year = NaN \/ month = NaN THEN NaN ELSE year * 10000 + month * 100 + 1

month_name(date) ==
    IF date = NaN THEN None ELSE month_names[(date \div 100) % 100]

bins == <<1908, 1920, 1932, 1944, 1956, 1968, 1980, 1992, 2004, 2016, 2020, 2024>>

labels == <<"Early 1910s", "Mid 1920s", "Late 1930s", "Early 1940s",
            "Mid 1950s", "Late 1960s", "Early 1970s", "Late 1980s",
            "Early 2000s", "Mid 2010s", "Early 2020s">>

\* one interval of pd.cut(right=True, include_lowest=True)
InBinLeftClosed(y, i) == bins[i] <= y /\ y < bins[i + 1]
InBin(y, i) == (bins[i] < y \/ (i = 1 /\ y = bins[1])) /\ y <= bins[i + 1]

cut(y) ==
    IF y # NaN /\ \E i \in 1..Len(labels) : InBin(y, i)
    THEN labels[CHOOSE i \in 1..Len(labels) : InBin(y, i)]
    ELSE None

RECURSIVE drop_duplicates(_)
drop_duplicates(rows) ==
    IF rows = <<>> THEN <<>>
    ELSE LET init == drop_duplicates(SubSeq(rows, 1, Len(rows) - 1))
             last == rows[Len(rows)]
         IN IF last \in SeqToSet(init) THEN init ELSE Append(init, last)

FillKeepMissing(v) == v
FillUnknown(v) == fillna(v, "Unknown")

clean_row(r) ==
    LET year == to_numeric(r.year)
        month_num == month_map(r.month)
        month_date == to_datetime(year, month_num)
    IN [country_region        |-> FillUnknown(r.country_region),
        operator              |-> FillUnknown(r.operator),
        aircraft_manufacturer |-> FillUnknown(r.aircraft_manufacturer),
        year                  |-> year,
        quarter               |-> r.quarter,
        month                 |-> r.month,
        fatalities_air        |-> to_numeric(r.fatalities_air),
        month_num             |-> month_num,
        month_date            |-> month_date,
        month_name            |-> month_name(month_date),
        year_bin              |-> cut(year)]

load_data(file) ==
    drop_duplicates([i \in 1..Len(file.rows) |-> clean_row(file.rows[i])])

----------------------------------------------------------------------------
(* Sidebar filters *)

filter_keys == <<"year", "quarter", "month">>

is_null(key, v) == IF key = "year" THEN v = NaN ELSE v = None

column(d, key) == {d[i][key] : i \in 1..Len(d)}

OptionsKeepNull(file, d, key) ==
    IF key = "quarter" /\ ~file.has_quarter THEN {} ELSE column(d, key)

\* filters[key]: df[key].dropna().unique(), [] for an absent quarter column
Options(file, d, key) ==
    IF key = "quarter" /\ ~file.has_quarter THEN {}
    ELSE {v \in column(d, key) : ~is_null(key, v)}

no_selection == [year |-> {}, quarter |-> {}, month |-> {}]

Count(sel) ==
    Cardinality(sel.year) + Cardinality(sel.quarter) + Cardinality(sel.month)

\* one click in a multiselect: an offered value is added or removed
Toggle(sel, key, v) ==
    [sel EXCEPT ![key] = IF v \in @ THEN @ \ {v} ELSE @ \cup {v}]

----------------------------------------------------------------------------
(* Apply filters *)

isin(key, v, values) == v \in values

CopyOfPrevious(d, previous) == previous
Copy(d, previous) == d

filter_by(view, key, values) ==
    IF values = {} THEN view
    ELSE SelectSeq(view, LAMBDA r : isin(key, r[key], values))

apply_first_filter(view, sel, k) ==
    filter_by(view, filter_keys[1], sel[filter_keys[1]])

RECURSIVE apply_filters(_, _, _)
apply_filters(view, sel, k) ==
    IF k > Len(filter_keys) THEN view
    ELSE apply_filters(filter_by(view, filter_keys[k], sel[filter_keys[k]]),
                       sel, k + 1)

----------------------------------------------------------------------------
(* Series helpers: a series is a sequence of [key, total] records *)

RECURSIVE sum_propagate(_)
sum_propagate(values) ==
    IF values = <<>> THEN 0
    ELSE LET rest == sum_propagate(Tail(values))
         IN IF Head(values) = NaN \/ rest = NaN THEN NaN
            ELSE Head(values) + rest

RECURSIVE sum_skipna(_)
sum_skipna(values) ==
    IF values = <<>> THEN 0
    ELSE (IF Head(values) = NaN THEN 0 ELSE Head(values))
         + sum_skipna(Tail(values))

col_sum(view, name) == sum_skipna([i \in 1..Len(view) |-> view[i][name]])

\* int(x) raises on NaN
int_raises(x) == x = NaN

\* the strings of the inputs, in Python's string order
lexicographic == <<"Airbus", "Angola", "April", "August", "Boeing", "Brazil",
                   "Chile", "December", "Douglas", "Egypt", "February",
                   "Fokker", "Ghana", "January", "July", "June", "Kenya",
                   "March", "May", "Nigeria", "November", "October", "Peru",
                   "September", "Unknown">>

order(key, v) ==
    IF key = "year" THEN v
    ELSE CHOOSE i \in 1..Len(lexicographic) : lexicographic[i] = v

RECURSIVE sorted(_, _)
sorted(key, S) ==
    IF S = {} THEN <<>>
    ELSE LET m == CHOOSE x \in S : \A y \in S : order(key, x) <= order(key, y)
         IN <<m>> \o sorted(key, S \ {m})

group_total(view, key, k) ==
    col_sum(SelectSeq(view, LAMBDA r : r[key] = k), "fatalities_air")

\* view.groupby(key)["fatalities_air"].sum(): null keys dropped, keys sorted
groupby_sum(view, key) ==
    LET keys == sorted(key, {v \in column(view, key) : ~is_null(key, v)})
    IN [i \in 1..Len(keys) |->
            [key |-> keys[i], total |-> group_total(view, key, keys[i])]]

remove_at(s, i) == SubSeq(s, 1, i - 1) \o SubSeq(s, i + 1, Len(s))

ArgMaxLast(s) ==
    CHOOSE i \in 1..Len(s) :
        /\ \A j \in 1..Len(s) : s[j].total <= s[i].total
        /\ \A j \in (i + 1)..Len(s) : s[j].total < s[i].total

ArgMaxFirst(s) ==
    CHOOSE i \in 1..Len(s) :
        /\ \A j \in 1..Len(s) : s[j].total <= s[i].total
        /\ \A j \in 1..(i - 1) : s[j].total < s[i].total

\* Series.nlargest(n), keep="first"
RECURSIVE nlargest(_, _)
nlargest(s, n) ==
    IF n = 0 \/ s = <<>> THEN <<>>
    ELSE LET i == ArgMaxFirst(s)
         IN <<s[i]>> \o nlargest(remove_at(s, i), n - 1)

top_n == 5

top5(view, key) == nlargest(groupby_sum(view, key), top_n)

reindex(s, index) ==
    [i \in 1..Len(index) |->
        [key   |-> index[i],
         total |-> IF \E j \in 1..Len(s) : s[j].key = index[i]
                   THEN s[CHOOSE j \in 1..Len(s) : s[j].key = index[i]].total
                   ELSE NaN]]

keepna(s) == s
dropna(s) == SelectSeq(s, LAMBDA e : e.total # NaN)

monthly(view) == dropna(reindex(groupby_sum(view, "month_name"), month_names))

\* groupby on the categorical year_bin: every category when observed=False
\* (an empty group sums to 0), only the occurring ones when observed=True
decades(view, obs) ==
    LET all == [i \in 1..Len(labels) |->
                   [key |-> labels[i],
                    total |-> group_total(view, "year_bin", labels[i])]]
    IN dropna(IF obs
              THEN SelectSeq(all, LAMBDA e : e.key \in column(view, "year_bin"))
              ELSE all)

----------------------------------------------------------------------------
(* The source files explored *)

Row(c, o, m, y, q, mo, f) ==
    [country_region |-> c, operator |-> o, aircraft_manufacturer |-> m,
     year |-> y, quarter |-> q, month |-> mo, fatalities_air |-> f]

\* a file with a Quarter column: missing cells, a misspelt and an unknown
\* month, years on and outside the bin boundaries, a repeated row
RowsWithQuarter ==
    << Row("Nigeria", "Op", "Boeing", 1977, "Qtr 1", "March",    10),
       Row(None,      None, None,     1977, "Qtr 4", "Feburary", NaN),
       Row("Nigeria", "Op", "Boeing", 1977, "Qtr 1", "March",    10),
       Row("Ghana",   "Op", "Airbus", 2016, "Qtr 4", "October",  5),
       Row("Ghana",   None, "Boeing", NaN,  None,    "October",  7),
       Row("Nigeria", "Op", None,     2025, "Qtr 4", None,       3),
       Row("Ghana",   "Op", "Airbus", 1920, "Qtr 1", "Marchx",   Bad),
       Row("Kenya",   "Op", "Fokker", Bad,  "Qtr 4", "March",    NaN) >>

\* a file without a Quarter column: many groups, equal totals
RowsWithoutQuarter ==
    << Row("Nigeria", "Op", "Boeing",  1985, None, "March", 520),
       Row("Ghana",   "Op", "Airbus",  1977, None, "March", 346),
       Row("Kenya",   "Op", "Douglas", 2001, None, "March", 2996),
       Row("Egypt",   "Op", "Fokker",  1988, None, "March", 270),
       Row("Angola",  "Op", "Boeing",  1996, None, "March", 349),
       Row("Peru",    "Op", None,      1972, None, "March", 1),
       Row("Chile",   "Op", "Airbus",  1990, None, "March", 270),
       Row("Brazil",  "Op", "Douglas", 1972, None, "March", 269) >>

RECURSIVE Pick(_, _)
Pick(rows, S) ==
    IF rows = <<>> THEN <<>>
    ELSE LET init == Pick(SubSeq(rows, 1, Len(rows) - 1), S)
         IN IF Len(rows) \in S THEN Append(init, rows[Len(rows)]) ELSE init

Files(has_quarter, rows) ==
    {[has_quarter |-> has_quarter, rows |-> Pick(rows, S)] :
        S \in {T \in SUBSET (1..Len(rows)) :
                  Cardinality(T) \in 1..MaxRows}}

CsvFiles == Files(TRUE, RowsWithQuarter) \cup Files(FALSE, RowsWithoutQuarter)

----------------------------------------------------------------------------
(* The script *)

\* one run of the script from "Apply filters" to the last chart
Run(table, previous, sel) ==
    LET view == apply_filters(Copy(table, previous), sel, 1)
        years == col_sum(view, "year")
        fatalities == col_sum(view, "fatalities_air")
    IN /\ filtered_df' = view
       /\ no_of_fatalities' = Len(view)
       /\ total_year' = years
       /\ sum_of_fatalities' = fatalities
       /\ raised' = (int_raises(years) \/ int_raises(fatalities))
       /\ crashes_per_year' = top5(view, "year")
       /\ top_countries' = top5(view, "country_region")
       /\ monthly_fatalities' = monthly(view)
       /\ top_manufacturers' = top5(view, "aircraft_manufacturer")
       /\ decade_counts' = decades(view, observed)

Init ==
    /\ csv \in CsvFiles
    /\ observed \in BOOLEAN
    /\ pc = "start"
    /\ df = <<>>
    /\ selected_filters = no_selection
    /\ filtered_df = <<>>
    /\ no_of_fatalities = 0
    /\ total_year = 0
    /\ sum_of_fatalities = 0
    /\ raised = FALSE
    /\ crashes_per_year = <<>>
    /\ top_countries = <<>>
    /\ monthly_fatalities = <<>>
    /\ top_manufacturers = <<>>
    /\ decade_counts = <<>>
    /\ cut_year = NaN
    /\ cut_bin = None

\* the first run: load_data fills the cache, nothing is selected yet
FirstRun ==
    /\ pc = "start"
    /\ pc' = "ready"
    /\ df' = load_data(csv)
    /\ selected_filters' = no_selection
    /\ Run(df', filtered_df, selected_filters')
    /\ UNCHANGED <<csv, observed, cut_year, cut_bin>>

\* the user changes one multiselect; the script runs again on the cached table
Rerun ==
    /\ pc = "ready"
    /\ \E k \in 1..Len(filter_keys) :
         \E v \in Options(csv, df, filter_keys[k]) :
            /\ Count(Toggle(selected_filters, filter_keys[k], v)) <= MaxSel
            /\ selected_filters' = Toggle(selected_filters, filter_keys[k], v)
    /\ Run(df, filtered_df, selected_filters')
    /\ UNCHANGED <<csv, observed, pc, df, cut_year, cut_bin>>

Next == FirstRun \/ Rerun

Spec == Init /\ [][Next]_vars

----------------------------------------------------------------------------
(* pd.cut on its own, over the years around the boundaries *)

CutYears == (bins[1] - Margin)..(bins[Len(bins)] + Margin)

InitCut ==
    /\ csv = [has_quarter |-> TRUE, rows |-> RowsWithQuarter]
    /\ observed = FALSE
    /\ pc = "start"
    /\ df = <<>>
    /\ selected_filters = no_selection
    /\ filtered_df = <<>>
    /\ no_of_fatalities = 0
    /\ total_year = 0
    /\ sum_of_fatalities = 0
    /\ raised = FALSE
    /\ crashes_per_year = <<>>
    /\ top_countries = <<>>
    /\ monthly_fatalities = <<>>
    /\ top_manufacturers = <<>>
    /\ decade_counts = <<>>
    /\ cut_year = NaN
    /\ cut_bin = None

Cut ==
    /\ \E y \in CutYears \cup {NaN} :
          /\ cut_year' = y
          /\ cut_bin' = cut(y)
    /\ UNCHANGED pipeline_vars

SpecCut == InitCut /\ [][Cut]_vars

----------------------------------------------------------------------------
(* Reference definitions used by the properties *)

Ready == pc = "ready"

RECURSIVE Total(_, _)
Total(view, n) ==
    IF n = 0 THEN 0
    ELSE Total(view, n - 1)
         + (IF view[n].fatalities_air = NaN THEN 0 ELSE view[n].fatalities_air)

GroupRows(view, key, k) == SelectSeq(view, LAMBDA r : r[key] = k)
GroupTotal(view, key, k) == Total(GroupRows(view, key, k), Len(GroupRows(view, key, k)))

Groups(view, key) == {v \in column(view, key) : ~is_null(key, v)}

Keys(s) == {s[i].key : i \in 1..Len(s)}

Matches(r, sel) ==
    \A k \in 1..Len(filter_keys) :
        sel[filter_keys[k]] = {} \/ r[filter_keys[k]] \in sel[filter_keys[k]]

Position(s, x) == CHOOSE i \in 1..Len(s) : s[i] = x

----------------------------------------------------------------------------
(* C1: the filtered view is exactly the rows of the canonical table whose  *)
(* value is in the selected set of every field with a non-empty selection  *)
(* (AND across fields, IN within a field), in the table's order; with      *)
(* every selection empty it is the whole canonical table.                  *)
C1_FilterConjunction ==
    Ready =>
        /\ filtered_df = SelectSeq(df, LAMBDA r : Matches(r, selected_filters))
        /\ (selected_filters = no_selection => filtered_df = df)

C1_Witness ==
    /\ Ready
    /\ selected_filters.year # {}
    /\ selected_filters.quarter # {}
    /\ Len(filtered_df) > 0
    /\ Len(filtered_df) < Len(filter_by(df, "year", selected_filters.year))
    /\ Len(filtered_df) < Len(filter_by(df, "quarter", selected_filters.quarter))

----------------------------------------------------------------------------
(* C2: when the selection matches no row, each of the five aggregates is   *)
(* empty and no step of the run raises.                                    *)
C2_EmptyViewEmptyAggregates ==
    (Ready /\ filtered_df = <<>>) =>
        /\ crashes_per_year = <<>>
        /\ top_countries = <<>>
        /\ monthly_fatalities = <<>>
        /\ top_manufacturers = <<>>
        /\ decade_counts = <<>>
        /\ ~raised

----------------------------------------------------------------------------
(* C3: each top-5 aggregate has min(5, number of groups) entries with      *)
(* distinct keys, each total the sum of the group's non-null fatalities,   *)
(* ordered by total descending, no left-out group above an entry, equal    *)
(* totals ordered and cut by group order; the per-year sums of the         *)
(* example give exactly the listed five entries.                           *)
TopFiveOK(result, view, key) ==
    LET K == Groups(view, key)
        order_of(k) == Position(sorted(key, K), k)
        N == Len(result)
    IN /\ N = Min(5, Cardinality(K))
       /\ Keys(result) \subseteq K
       /\ \A i, j \in 1..N : result[i].key = result[j].key => i = j
       /\ \A i \in 1..N : result[i].total = GroupTotal(view, key, result[i].key)
       /\ \A i, j \in 1..N : i < j => result[i].total >= result[j].total
       /\ \A i, j \in 1..N :
             (i < j /\ result[i].total = result[j].total)
                 => order_of(result[i].key) < order_of(result[j].key)
       /\ \A k \in K \ Keys(result) : \A i \in 1..N :
             /\ GroupTotal(view, key, k) <= result[i].total
             /\ GroupTotal(view, key, k) = result[i].total
                    => order_of(result[i].key) < order_of(k)

ExampleSums ==
    {<<1985, 520>>, <<1977, 346>>, <<2001, 2996>>, <<1988, 270>>,
     <<1996, 349>>, <<1972, 1>>}

ExampleTop ==
    << [key |-> 2001, total |-> 2996], [key |-> 1985, total |-> 520],
       [key |-> 1996, total |-> 349],  [key |-> 1977, total |-> 346],
       [key |-> 1988, total |-> 270] >>

IsExample(view) ==
    {<<k, GroupTotal(view, "year", k)>> : k \in Groups(view, "year")} = ExampleSums

C3_TopFive ==
    Ready =>
        /\ TopFiveOK(crashes_per_year, filtered_df, "year")
        /\ TopFiveOK(top_countries, filtered_df, "country_region")
        /\ TopFiveOK(top_manufacturers, filtered_df, "aircraft_manufacturer")
        /\ (IsExample(filtered_df) => crashes_per_year = ExampleTop)

\* six year groups, two of them tied at the fifth place
C3_Witness ==
    /\ Ready
    /\ Cardinality(Groups(filtered_df, "year")) > 5
    /\ \E k \in Groups(filtered_df, "year") \ Keys(crashes_per_year) :
          GroupTotal(filtered_df, "year", k) = crashes_per_year[5].total

----------------------------------------------------------------------------
(* C4: pd.cut maps every year y in 1908..2024 to the one label i with      *)
(* boundary[i] < y <= boundary[i+1] (1908 to the first label), and every   *)
(* other year and a missing year to null; 1920 is "Early 1910s", 2025 is   *)
(* null, 2016 has one label.                                               *)
C4_YearBinning ==
    /\ (cut_year >= 1908 /\ cut_year <= 2024) =>
          /\ Cardinality({i \in 1..11 : labels[i] = cut_bin}) = 1
          /\ \A i \in 1..11 :
                labels[i] = cut_bin <=>
                    \/ bins[i] < cut_year /\ cut_year <= bins[i + 1]
                    \/ i = 1 /\ cut_year = 1908
    /\ (cut_year < 1908 \/ cut_year > 2024 \/ cut_year = NaN) => cut_bin = None
    /\ cut_year = 1920 => cut_bin = "Early 1910s"
    /\ cut_year = 2025 => cut_bin = None
    /\ cut_year = 2016 => cut_bin = "Early 2000s"

C4_Witness == cut_year = 2016 /\ cut_bin = "Early 2000s"

----------------------------------------------------------------------------
(* C5: decade totals hold an entry for a label only if a row of the view   *)
(* falls in that bin, each total is the sum of the bin's non-null          *)
(* fatalities, and the entries follow the fixed label order.               *)
C5_DecadeTotalsOnlyForData ==
    Ready =>
        /\ \A i \in 1..Len(decade_counts) :
              /\ decade_counts[i].key \in column(filtered_df, "year_bin")
              /\ decade_counts[i].total
                    = GroupTotal(filtered_df, "year_bin", decade_counts[i].key)
        /\ \A i, j \in 1..Len(decade_counts) :
              i < j => Position(labels, decade_counts[i].key)
                          < Position(labels, decade_counts[j].key)

----------------------------------------------------------------------------
(* C6: monthly totals hold exactly one entry for each month name that      *)
(* occurs in the view, none for any other month, in calendar order.        *)
C6_MonthlyTotals ==
    Ready =>
        /\ Keys(monthly_fatalities) = Groups(filtered_df, "month_name")
        /\ \A i, j \in 1..Len(monthly_fatalities) :
              i < j => Position(month_names, monthly_fatalities[i].key)
                          < Position(month_names, monthly_fatalities[j].key)
        /\ \A i \in 1..Len(monthly_fatalities) :
              monthly_fatalities[i].total # NaN

C6_Witness ==
    /\ Ready
    /\ Len(monthly_fatalities) = 2
    /\ monthly_fatalities[1].key = "March"
    /\ monthly_fatalities[2].key = "October"
    /\ \E i \in 1..Len(filtered_df) : filtered_df[i].month_name = None

----------------------------------------------------------------------------
(* C7: the fatalities-sum metric is the sum of the non-null fatalities_air *)
(* of the view: 0 for an empty or all-null view, 15 for [10, null, 5];     *)
(* computing and casting it never raises.                                  *)
Fatalities(view) == [i \in 1..Len(view) |-> view[i].fatalities_air]

C7_FatalitiesSum ==
    Ready =>
        /\ sum_of_fatalities = Total(filtered_df, Len(filtered_df))
        /\ (\A i \in 1..Len(filtered_df) : filtered_df[i].fatalities_air = NaN)
              => sum_of_fatalities = 0
        /\ Fatalities(filtered_df) = <<10, NaN, 5>> => sum_of_fatalities = 15
        /\ ~raised

C7_Witness ==
    /\ Ready
    /\ Fatalities(filtered_df) = <<10, NaN, 5>>
    /\ sum_of_fatalities = 15

----------------------------------------------------------------------------
(* C8: in every row of the canonical table and of every filtered view,     *)
(* country_region, operator and aircraft_manufacturer are non-null; a      *)
(* missing source value reads "Unknown".                                   *)
Filled(S) == {IF v = None THEN "Unknown" ELSE v : v \in S}

C8_IdentityFieldsNonNull ==
    Ready =>
        /\ \A i \in 1..Len(df) :
              /\ df[i].country_region # None
              /\ df[i].operator # None
              /\ df[i].aircraft_manufacturer # None
        /\ \A i \in 1..Len(filtered_df) :
              /\ filtered_df[i].country_region # None
              /\ filtered_df[i].operator # None
              /\ filtered_df[i].aircraft_manufacturer # None
        /\ column(df, "country_region") = Filled(column(csv.rows, "country_region"))
        /\ column(df, "operator") = Filled(column(csv.rows, "operator"))
        /\ column(df, "aircraft_manufacturer")
              = Filled(column(csv.rows, "aircraft_manufacturer"))

C8_Witness ==
    /\ Ready
    /\ \E i \in 1..Len(csv.rows) : csv.rows[i].country_region = None
    /\ selected_filters # no_selection
    /\ \E i \in 1..Len(filtered_df) :
          /\ filtered_df[i].country_region = "Unknown"
          /\ filtered_df[i].operator = "Unknown"
          /\ filtered_df[i].aircraft_manufacturer = "Unknown"

----------------------------------------------------------------------------
(* C9: after any sequence of filter changes the canonical table is the     *)
(* table the loader produced, and the filtered view is computed from that  *)
(* whole table and the current selection only.                             *)
C9_CanonicalTableUnchanged ==
    Ready =>
        /\ df = load_data(csv)
        /\ filtered_df = apply_filters(load_data(csv), selected_filters, 1)

\* two values selected: at least two re-runs after the first run, and the
\* view of the run before (one value selected) lacked a row of this one
C9_Witness ==
    /\ Ready
    /\ Cardinality(selected_filters.year) = 2
    /\ Len(filtered_df) = 2
    /\ Len(df) > 2

----------------------------------------------------------------------------
(* C10: a field with a non-empty selection has no null value in the view;  *)
(* selecting every offered value of one field gives the canonical table    *)
(* minus the rows null in that field, which is the select-all result only  *)
(* when the field has no null.                                             *)
NonNull(d, key) == SelectSeq(d, LAMBDA r : ~is_null(key, r[key]))

C10_NullNeverSelected ==
    Ready =>
        \A k \in 1..Len(filter_keys) :
            LET key == filter_keys[k] IN
            /\ selected_filters[key] # {} =>
                  \A i \in 1..Len(filtered_df) : ~is_null(key, filtered_df[i][key])
            /\ ( /\ selected_filters[key] # {}
                 /\ selected_filters[key] = Options(csv, df, key)
                 /\ Count(selected_filters) = Cardinality(selected_filters[key]) )
                  => /\ filtered_df = NonNull(df, key)
                     /\ filtered_df = df <=>
                           \A i \in 1..Len(df) : ~is_null(key, df[i][key])

C10_Witness ==
    /\ Ready
    /\ selected_filters.year # {}
    /\ selected_filters.year = Options(csv, df, "year")
    /\ selected_filters.quarter = {}
    /\ selected_filters.month = {}
    /\ Len(filtered_df) < Len(df)

====
